---- MODULE Spec2Model ----
(***************************************************************************)
(* matchr: the regular-expression match combinator of src/matchr.py.       *)
(*                                                                         *)
(* A string is a sequence of character codes (chr(97) is <<97>>, the empty *)
(* string is <<>>).  A match set is a sequence of strings, the way         *)
(* `product` iterates it.  A parsed pattern (the value sre_parse.parse     *)
(* returns) is a sequence of nodes; a node is a record with the opcode in  *)
(* `op` and the opcode's arguments in the remaining fields.                *)
(***************************************************************************)
EXTENDS Integers, Sequences, FiniteSets

(***************************************************************************)
(* Bounds of the model.                                                    *)
(***************************************************************************)
MaxBound == 3
MaxLow == 2
MaxHigh == 3

(***************************************************************************)
(* sre constants and the nodes sre_parse emits.                            *)
(***************************************************************************)
MAXREPEAT == 65535

Node(op, a, b, cat, pat, branches) ==
    [op |-> op, a |-> a, b |-> b, cat |-> cat, pat |-> pat, branches |-> branches]

LITERAL(c) == Node("literal", c, 0, "", <<>>, <<>>)
NOT_LITERAL(c) == Node("not_literal", c, 0, "", <<>>, <<>>)
ANY == Node("any", 0, 0, "", <<>>, <<>>)
RANGE(low, high) == Node("range", low, high, "", <<>>, <<>>)
NEGATE == Node("negate", 0, 0, "", <<>>, <<>>)
IN_(args) == Node("in", 0, 0, "", args, <<>>)
CATEGORY(cat) == Node("category", 0, 0, cat, <<>>, <<>>)
MAX_REPEAT(low, high, pat) == Node("max_repeat", low, high, "", pat, <<>>)
MIN_REPEAT(low, high, pat) == Node("min_repeat", low, high, "", pat, <<>>)
SUBPATTERN(pat) == Node("subpattern", 0, 0, "", pat, <<>>)
BRANCH(branches) == Node("branch", 0, 0, "", <<>>, branches)
\* opcodes the engine has no case for
AT(where) == Node("at", 0, 0, where, <<>>, <<>>)
GROUPREF(n) == Node("groupref", n, 0, "", <<>>, <<>>)

(***************************************************************************)
(* Strings.                                                                *)
(***************************************************************************)
chr(c) == <<c>>
EMPTY == <<>>

RECURSIVE JoinBetween(_, _, _)
JoinBetween(t, low, high) ==
    IF low > high THEN EMPTY
    ELSE IF low = high THEN t[low]
    ELSE LET mid == (low + high) \div 2
         IN  JoinBetween(t, low, mid) \o JoinBetween(t, mid + 1, high)

\* ''.join(t)
join(t) == JoinBetween(t, 1, Len(t))

\* set(seq)
Elems(s) == {s[k] : k \in DOMAIN s}

RECURSIVE SortedBetween(_, _, _)
\* the members of S with a code in low..high, in the order of their codes
SortedBetween(S, low, high) ==
    IF low = high THEN (IF chr(low) \in S THEN <<chr(low)>> ELSE <<>>)
    ELSE LET mid == (low + high) \div 2
         IN  SortedBetween(S, low, mid) \o SortedBetween(S, mid + 1, high)

\* sorted(S) for a set S of one-character strings
sorted(S) == SortedBetween(S, 0, 255)

RECURSIVE ChainBetween(_, _, _)
ChainBetween(its, low, high) ==
    IF low > high THEN <<>>
    ELSE IF low = high THEN its[low]
    ELSE LET mid == (low + high) \div 2
         IN  ChainBetween(its, low, mid) \o ChainBetween(its, mid + 1, high)

\* itertools.chain(*its)
chain(its) == ChainBetween(its, 1, Len(its))

(***************************************************************************)
(* The alphabet and the category tables.                                   *)
(***************************************************************************)
\* ALL as the module body sets it at import
ALL_default == {chr(x) : x \in (0..255) \ {10, 13, 0}}

\* ALL as --ascii rebinds it
ALL_ascii == {chr(x) : x \in 32..126}

digits == [k \in 1..10 |-> chr(47 + k)]
whitespace == <<chr(9), chr(10), chr(11), chr(12), chr(13), chr(32)>>
ascii_letters == [k \in 1..52 |-> IF k <= 26 THEN chr(96 + k) ELSE chr(64 + k - 26)]

\* built once, when the module is imported, from the ALL of that moment
CATEGORIES ==
    [c \in {"category_digit", "category_space", "category_word",
            "category_not_digit", "category_not_space", "category_not_word"} |->
        CASE c = "category_digit" -> digits
          [] c = "category_space" -> whitespace
          [] c = "category_word" -> ascii_letters
          [] c = "category_not_digit" -> sorted(ALL_default \ Elems(digits))
          [] c = "category_not_space" -> sorted(ALL_default \ Elems(whitespace))
          [] c = "category_not_word" -> sorted(ALL_default \ Elems(ascii_letters))]

(***************************************************************************)
(* itertools.product: the cartesian product of the match sets, the last    *)
(* set varying fastest.                                                    *)
(***************************************************************************)
RECURSIVE ProductBetween(_, _, _)
\* the product of the wheels low..high
ProductBetween(wheels, low, high) ==
    IF low > high THEN << <<>> >>
    ELSE IF low = high THEN [k \in 1..Len(wheels[low]) |-> <<wheels[low][k]>>]
    ELSE LET mid == (low + high) \div 2
             left == ProductBetween(wheels, low, mid)
             right == ProductBetween(wheels, mid + 1, high)
             n == Len(right)
         IN  [k \in 1..(Len(left) * n) |->
                left[((k - 1) \div n) + 1] \o right[((k - 1) % n) + 1]]

\* a product whose first wheel turns fastest
product_first_fastest(wheels) ==
    LET n == Len(wheels)
        p == ProductBetween([k \in 1..n |-> wheels[n + 1 - k]], 1, n)
    IN  [k \in 1..Len(p) |-> [j \in 1..n |-> p[k][n + 1 - j]]]

product(wheels) == ProductBetween(wheels, 1, Len(wheels))

(***************************************************************************)
(* The match generator.  The tree is a Python list the engine works on in  *)
(* place, so every operator returns the tree as the call leaves it next to *)
(* what the call yields; ok is FALSE when NotImplementedError was raised.  *)
(***************************************************************************)
Min(x, y) == IF x < y THEN x ELSE y

\* a repeat whose forced copies may be left out as well
RepeatSetsAllOptional(low, high, matches) ==
    [k \in 1..(low + (IF high - low > 0 THEN high - low ELSE 0)) |->
        chain(<< <<EMPTY>>, matches >>)]

\* the match sets of a repeat: low forced copies, then high - low optional ones
RepeatSets(low, high, matches) ==
    [k \in 1..(low + (IF high - low > 0 THEN high - low ELSE 0)) |->
        IF k <= low THEN matches ELSE chain(<< <<EMPTY>>, matches >>)]

\* a cap that lets one repetition too many through
CapOffByOne(max_repeat, high) == Min(max_repeat + 1, high)

\* the cap a repeat applies to its upper count
Cap(max_repeat, high) == Min(max_repeat, high)

\* the match sets of a category: every character of the table is yielded on its own
CategorySets(cat) == [k \in 1..Len(CATEGORIES[cat]) |-> <<CATEGORIES[cat][k]>>]

\* is the opcode one the match generator has a case for
Handled(op) ==
    op \in {"subpattern", "branch", "literal", "not_literal", "any", "range",
            "in", "max_repeat", "min_repeat", "category"}

\* an engine that passes over the node it has no case for
Skip(node) == [ok |-> TRUE, sets |-> <<>>, node |-> node]

\* raise NotImplementedError: the node yields nothing and the call ends
Raise(node) == [ok |-> FALSE, sets |-> <<>>, node |-> node]

RECURSIVE _generate(_, _, _), _combine(_, _, _), GenNode(_, _, _), CombineBranches(_, _, _)

\* map(c, branches): every branch combined in turn
CombineBranches(branches, max_repeat, all) ==
    IF branches = <<>> THEN [ok |-> TRUE, sets |-> <<>>, branches |-> <<>>]
    ELSE LET h == _combine(Head(branches), max_repeat, all)
         IN  IF ~h.ok
             THEN [ok |-> FALSE, sets |-> <<>>, branches |-> <<h.pat>> \o Tail(branches)]
             ELSE LET t == CombineBranches(Tail(branches), max_repeat, all)
                  IN  [ok |-> t.ok,
                       sets |-> IF t.ok THEN <<h.matches>> \o t.sets ELSE <<>>,
                       branches |-> <<h.pat>> \o t.branches]

\* one pass of the loop body of _generate: the match sets one node yields
GenNode(node, max_repeat, all) ==
    CASE node.op = "subpattern" ->
            LET r == _combine(node.pat, max_repeat, all)
            IN  [ok |-> r.ok, sets |-> IF r.ok THEN <<r.matches>> ELSE <<>>,
                 node |-> [node EXCEPT !.pat = r.pat]]
      [] node.op = "branch" ->
            LET r == CombineBranches(node.branches, max_repeat, all)
            IN  [ok |-> r.ok, sets |-> IF r.ok THEN <<chain(r.sets)>> ELSE <<>>,
                 node |-> [node EXCEPT !.branches = r.branches]]
      [] node.op = "literal" ->
            [ok |-> TRUE, sets |-> << <<chr(node.a)>> >>, node |-> node]
      [] node.op = "not_literal" ->
            [ok |-> TRUE, sets |-> <<sorted(all \ {chr(node.a)})>>, node |-> node]
      [] node.op = "any" ->
            [ok |-> TRUE, sets |-> <<sorted(all)>>, node |-> node]
      [] node.op = "range" ->
            [ok |-> TRUE,
             sets |-> << [k \in 1..(node.b + 1 - node.a) |-> chr(node.a + k - 1)] >>,
             node |-> node]
      [] node.op = "in" ->
            IF node.pat[1].op = "negate"
            THEN LET args == Tail(node.pat)   \* args.pop(0)
                     r == _generate(args, max_repeat, all)
                 IN  [ok |-> r.ok,
                      sets |-> IF r.ok THEN <<sorted(all \ Elems(chain(r.sets)))>>
                               ELSE <<>>,
                      node |-> [node EXCEPT !.pat = r.pat]]
            ELSE LET r == _generate(node.pat, max_repeat, all)
                 IN  [ok |-> r.ok,
                      sets |-> IF r.ok THEN <<chain(r.sets)>> ELSE <<>>,
                      node |-> [node EXCEPT !.pat = r.pat]]
      [] node.op \in {"max_repeat", "min_repeat"} ->
            LET high == Cap(max_repeat, node.b)
                r == _combine(node.pat, max_repeat, all)
            IN  [ok |-> r.ok,
                 sets |-> IF r.ok THEN RepeatSets(node.a, high, r.matches) ELSE <<>>,
                 node |-> [node EXCEPT !.pat = r.pat]]
      [] node.op = "category" ->
            IF node.cat \in DOMAIN CATEGORIES
            THEN [ok |-> TRUE, sets |-> CategorySets(node.cat), node |-> node]
            ELSE Raise(node)
      [] ~Handled(node.op) ->
            Raise(node)

\* the sequence of match sets of a parsed pattern, as unpack lists it
_generate(sre_pattern, max_repeat, all) ==
    IF sre_pattern = <<>> THEN [ok |-> TRUE, sets |-> <<>>, pat |-> <<>>]
    ELSE LET h == GenNode(Head(sre_pattern), max_repeat, all)
         IN  IF ~h.ok
             THEN [ok |-> FALSE, sets |-> <<>>, pat |-> <<h.node>> \o Tail(sre_pattern)]
             ELSE LET t == _generate(Tail(sre_pattern), max_repeat, all)
                  IN  [ok |-> t.ok,
                       sets |-> IF t.ok THEN h.sets \o t.sets ELSE <<>>,
                       pat |-> <<h.node>> \o t.pat]

\* map(''.join, product(*unpack(_generate(sre_pattern))))
_combine(sre_pattern, max_repeat, all) ==
    LET g == _generate(sre_pattern, max_repeat, all)
    IN  [ok |-> g.ok,
         sets |-> g.sets,
         matches |-> IF g.ok
                     THEN LET p == product(g.sets) IN [k \in 1..Len(p) |-> join(p[k])]
                     ELSE <<>>,
         pat |-> g.pat]

(***************************************************************************)
(* The parsed patterns the callers hand over.                              *)
(***************************************************************************)
Children ==
    { <<LITERAL(97)>>,
      <<SUBPATTERN(<<IN_(<<LITERAL(97), LITERAL(99)>>)>>)>>,
      <<SUBPATTERN(<<BRANCH(<< <<LITERAL(97)>>, <<LITERAL(98), LITERAL(99)>> >>)>>)>> }

RepeatPatterns ==
    { p \in { <<MAX_REPEAT(low, high, pat)>> :
                low \in 0..MaxLow, high \in (0..MaxHigh) \cup {MAXREPEAT},
                pat \in Children } : p[1].a <= p[1].b }
    \cup { <<MIN_REPEAT(low, MAXREPEAT, <<LITERAL(97)>>)>> : low \in 0..MaxLow }

Samples ==
    { <<LITERAL(97), LITERAL(98)>>,
      <<IN_(<<LITERAL(97), LITERAL(98)>>), IN_(<<LITERAL(99), LITERAL(100)>>)>>,
      <<MAX_REPEAT(0, 1, <<LITERAL(97)>>), MAX_REPEAT(0, 1, <<LITERAL(97)>>)>>,
      <<MAX_REPEAT(0, 5, <<LITERAL(97)>>)>>,
      <<BRANCH(<< <<LITERAL(97), LITERAL(98)>>, <<LITERAL(99)>>,
                  <<LITERAL(97), LITERAL(98)>> >>)>>,
      <<LITERAL(97), IN_(<<RANGE(48, 50)>>), MAX_REPEAT(1, 2, <<LITERAL(98)>>)>>,
      <<IN_(<<CATEGORY("category_digit")>>)>>,
      <<IN_(<<CATEGORY("category_space")>>)>>,
      <<IN_(<<CATEGORY("category_word")>>)>>,
      <<IN_(<<CATEGORY("category_not_digit")>>)>>,
      <<IN_(<<CATEGORY("category_not_space")>>)>>,
      <<IN_(<<CATEGORY("category_not_word")>>)>>,
      <<IN_(<<CATEGORY("category_digit"), LITERAL(97), LITERAL(48)>>)>>,
      <<CATEGORY("category_digit")>>,
      <<CATEGORY("category_space")>>,
      <<LITERAL(120), CATEGORY("category_word")>>,
      <<ANY>>,
      <<NOT_LITERAL(97)>>,
      <<IN_(<<NEGATE, LITERAL(97), LITERAL(98)>>)>>,
      <<IN_(<<NEGATE, CATEGORY("category_digit")>>)>>,
      <<MAX_REPEAT(0, 1, <<SUBPATTERN(<<IN_(<<NEGATE, RANGE(1, 253)>>)>>)>>)>>,
      <<AT("at_beginning"), LITERAL(97)>>,
      <<LITERAL(97), GROUPREF(1)>>,
      <<SUBPATTERN(<<LITERAL(97), AT("at_end")>>)>>,
      <<BRANCH(<< <<LITERAL(97)>>, <<LITERAL(98), AT("at_end")>> >>)>>,
      <<IN_(<<LITERAL(97), CATEGORY("category_linebreak")>>)>>,
      <<IN_(<<NEGATE, LITERAL(97), CATEGORY("category_linebreak")>>)>>,
      <<MAX_REPEAT(0, 0, <<GROUPREF(1)>>)>>,
      <<CATEGORY("category_uni_digit")>> }

Patterns == RepeatPatterns \cup Samples

\* the values a caller passes as max_repeat
Bounds == (0 - 1)..MaxBound

(***************************************************************************)
(* The program: the alphabet, and one `generate` generator at a time.      *)
(***************************************************************************)
VARIABLES
    ALL,         \* the module global ALL
    pattern,     \* the pattern of the call, as sre_parse.parse returns it
    max_repeat,  \* the max_repeat of the call
    pc,          \* "idle", "start" (generator made, not yet run), "iter" (at the
                 \* yield), "done" (exhausted), "error" (NotImplementedError
                 \* raised), "again" (the tree combined a second time)
    tree,        \* the list sre_parse.parse returned, as the engine leaves it
    sets,        \* unpack(_generate(tree)): the match sets
    matches,     \* the candidates _combine returned
    i,           \* how many candidates the for loop has pulled
    had,         \* the set `had`
    out,         \* what the generator has yielded so far
    raised,      \* the exception that ended the generator, "" when none did
    again        \* what a second _combine over the same tree returned

vars == <<ALL, pattern, max_repeat, pc, tree, sets, matches, i, had, out, raised, again>>

NoResult == [ok |-> TRUE, matches |-> <<>>]

Init ==
    /\ ALL = ALL_default
    /\ pattern = <<>>
    /\ max_repeat = MAXREPEAT
    /\ pc = "idle"
    /\ tree = <<>>
    /\ sets = <<>>
    /\ matches = <<>>
    /\ i = 0
    /\ had = {}
    /\ out = <<>>
    /\ raised = ""
    /\ again = NoResult

\* __main__: options.ascii rebinds ALL before anything is generated
Ascii ==
    /\ pc = "idle"
    /\ ALL = ALL_default
    /\ ALL' = ALL_ascii
    /\ UNCHANGED <<pattern, max_repeat, pc, tree, sets, matches, i, had, out, raised, again>>

\* generate(pattern, max_repeat): the generator is made, nothing of it runs yet
Generate(p, b) ==
    /\ pc \in {"idle", "done", "error", "again"}
    /\ pattern' = p
    /\ max_repeat' = b
    /\ pc' = "start"
    /\ tree' = <<>>
    /\ sets' = <<>>
    /\ matches' = <<>>
    /\ i' = 0
    /\ had' = {}
    /\ out' = <<>>
    /\ raised' = ""
    /\ again' = NoResult
    /\ UNCHANGED ALL

\* a driver that never consults `had`
FreshAlways(match, seen) == TRUE

\* `match not in had`
Fresh(match, seen) == match \notin seen

\* the for loop of generate from candidate k on: the index of the candidate it
\* yields next, 0 when the candidates run out first
RECURSIVE NextYield(_, _, _)
NextYield(ms, k, seen) ==
    IF k > Len(ms) THEN 0
    ELSE IF Fresh(ms[k], seen) THEN k
    ELSE NextYield(ms, k + 1, seen)

\* the for loop runs to its next yield, or to its end
Loop(ms, k) ==
    LET j == NextYield(ms, k, had)
    IN  IF j = 0
        THEN /\ pc' = "done"
             /\ i' = Len(ms)
             /\ UNCHANGED <<had, out>>
        ELSE /\ pc' = "iter"
             /\ i' = j
             /\ had' = had \cup {ms[j]}
             /\ out' = Append(out, ms[j])

\* the first next() of the generator: parse, _combine, then the loop
Start ==
    /\ pc = "start"
    /\ LET r == _combine(pattern, max_repeat, ALL)
       IN  /\ tree' = r.pat
           /\ sets' = r.sets
           /\ matches' = r.matches
           /\ IF r.ok
              THEN Loop(r.matches, 1) /\ UNCHANGED raised
              ELSE /\ pc' = "error"
                   /\ raised' = "NotImplementedError"
                   /\ UNCHANGED <<i, had, out>>
    /\ UNCHANGED <<ALL, pattern, max_repeat, again>>

\* a later next() of the generator
Resume ==
    /\ pc = "iter"
    /\ Loop(matches, i + 1)
    /\ UNCHANGED <<ALL, pattern, max_repeat, tree, sets, matches, raised, again>>

\* _combine called once more on the tree the first call worked on
Recombine ==
    /\ pc = "done"
    /\ LET r == _combine(tree, max_repeat, ALL)
       IN  /\ tree' = r.pat
           /\ again' = [ok |-> r.ok, matches |-> r.matches]
    /\ pc' = "again"
    /\ UNCHANGED <<ALL, pattern, max_repeat, sets, matches, i, had, out, raised>>

Next ==
    \/ Ascii
    \/ \E p \in Patterns, b \in Bounds : Generate(p, b)
    \/ Start
    \/ Resume
    \/ Recombine

Spec == Init /\ [][Next]_vars

(***************************************************************************)
(* Properties.                                                             *)
(***************************************************************************)
Ran == pc \in {"iter", "done", "error", "again"}

IsRepeat(p) == Len(p) = 1 /\ p[1].op \in {"max_repeat", "min_repeat"}

\* what _combine returns for the child of the repeat the call is about
ChildMatches == _combine(pattern[1].pat, max_repeat, ALL).matches

\* the least index at which x stands in ms
FirstIndex(ms, x) ==
    LET at == {k \in DOMAIN ms : ms[k] = x}
    IN  CHOOSE k \in at : \A j \in at : k <= j

RECURSIVE KFold(_, _)
\* the k-fold concatenations of strings of L
KFold(L, k) ==
    IF k = 0 THEN {EMPTY} ELSE {s \o t : s \in KFold(L, k - 1), t \in L}

\* the bounded repetition of L: between low and high copies, each chosen freely
Textbook(L, low, high) == UNION {KFold(L, k) : k \in low..high}

\* C1: what generate has yielded holds no string twice and holds exactly the
\* candidates pulled from _combine so far; once generate is exhausted these
\* are all the strings _combine produced, in the order of their first
\* occurrence among the candidates.
C1_GenerateDeduplicates ==
    /\ pc \in {"iter", "done"} =>
          /\ Len(out) = Cardinality(Elems(out))
          /\ Elems(out) = {matches[k] : k \in 1..i}
    /\ pc = "done" =>
          /\ Elems(out) = Elems(matches)
          /\ \A k \in 1..(Len(out) - 1) :
                FirstIndex(matches, out[k]) < FirstIndex(matches, out[k + 1])

\* a?a?: four candidates, three strings
C1_Witness ==
    /\ pc = "done"
    /\ matches = << EMPTY, <<97>>, <<97>>, <<97, 97>> >>
    /\ out = << EMPTY, <<97>>, <<97, 97>> >>

\* C2: whatever low, high and the (positive) bound are, no string generate
\* yields for a Repeat node is made of more than min(high, bound) strings of
\* the child.
C2_RepeatNeverExceedsCap ==
    (Ran /\ IsRepeat(pattern) /\ max_repeat >= 1) =>
        \A s \in Elems(out) :
            s \in Textbook(Elems(ChildMatches), 0, Min(pattern[1].b, max_repeat))

\* C3: for a Repeat node with low <= min(high, bound), _generate emits low match
\* sets equal to the child's matches, then min(high, bound) - low match sets
\* equal to the empty string followed by the child's matches.
C3_RepeatMatchSets ==
    (pc \in {"iter", "done"} /\ IsRepeat(pattern)
        /\ pattern[1].a <= Min(pattern[1].b, max_repeat)) =>
        /\ Len(sets) = Min(pattern[1].b, max_repeat)
        /\ \A k \in 1..Len(sets) :
              sets[k] = IF k <= pattern[1].a THEN ChildMatches
                        ELSE <<EMPTY>> \o ChildMatches

\* (a|c)+ with max_repeat 3: [['a','c'], ['','a','c'], ['','a','c']]
C3_Witness ==
    /\ pc \in {"iter", "done"}
    /\ pattern = <<MAX_REPEAT(1, MAXREPEAT,
                     <<SUBPATTERN(<<IN_(<<LITERAL(97), LITERAL(99)>>)>>)>>)>>
    /\ max_repeat = 3
    /\ sets = << << <<97>>, <<99>> >>,
                 << EMPTY, <<97>>, <<99>> >>,
                 << EMPTY, <<97>>, <<99>> >> >>

\* the node kinds the engine models
KnownKinds ==
    {"literal", "not_literal", "any", "range", "in", "category", "max_repeat",
     "min_repeat", "subpattern", "branch"}

KnownCategories ==
    {"category_digit", "category_not_digit", "category_space",
     "category_not_space", "category_word", "category_not_word"}

RECURSIVE Unsupported(_)
\* does the tree hold, at any depth, a node the engine does not model
Unsupported(pat) ==
    \E k \in DOMAIN pat :
        LET n == pat[k]
        IN  \/ n.op \notin KnownKinds
            \/ n.op = "category" /\ n.cat \notin KnownCategories
            \/ n.op = "in" /\ Unsupported(IF n.pat[1].op = "negate"
                                           THEN Tail(n.pat) ELSE n.pat)
            \/ n.op \in {"subpattern", "max_repeat", "min_repeat"} /\ Unsupported(n.pat)
            \/ n.op = "branch" /\ \E j \in DOMAIN n.branches : Unsupported(n.branches[j])

\* C4: when the tree holds an unsupported node at any depth, the call ends with
\* NotImplementedError and generate has yielded no string.
C4_UnsupportedAborts ==
    (Ran /\ Unsupported(pattern)) =>
        /\ pc = "error"
        /\ raised = "NotImplementedError"
        /\ out = <<>>

\* the unsupported node is the child of a repeat that repeats it zero times
C4_Witness ==
    /\ pc = "error"
    /\ pattern = <<MAX_REPEAT(0, 0, <<GROUPREF(1)>>)>>
    /\ out = <<>>

\* C5: a zero or negative max_repeat is rejected with InvalidBound and generate
\* yields nothing.
C5_NonPositiveBoundRejected ==
    (Ran /\ max_repeat <= 0) => (raised = "InvalidBound" /\ out = <<>>)

\* C6: a call (here with a positive bound) leaves the tree as it found it, and
\* combining the same tree again gives the same candidates.
C6_TreeUntouched ==
    /\ (Ran /\ max_repeat >= 1) => tree = pattern
    /\ (pc = "again" /\ max_repeat >= 1) => (again.ok /\ again.matches = matches)

\* C7: under either alphabet, what generate (with a positive bound) yields for
\* a negated category is the working alphabet without the table of the
\* positive category.
C7_NegatedCategoryFollowsAlphabet ==
    \A c \in {"digit", "space", "word"} :
        (pc \in {"iter", "done"} /\ max_repeat >= 1
            /\ pattern = <<IN_(<<CATEGORY("category_not_" \o c)>>)>>) =>
            /\ Elems(out) \subseteq ALL \ Elems(CATEGORIES["category_" \o c])
            /\ pc = "done" => Elems(out) = ALL \ Elems(CATEGORIES["category_" \o c])

\* C8: a sequence of one Category node, direct or as the one member of a
\* class, yields (for a positive bound) the characters of the category's
\* table, one string each, in table order.
C8_CategoryYieldsTable ==
    \A c \in DOMAIN CATEGORIES :
        (pc = "done" /\ max_repeat >= 1
            /\ pattern \in {<<CATEGORY(c)>>, <<IN_(<<CATEGORY(c)>>)>>}) =>
            out = CATEGORIES[c]

RECURSIVE Turns(_, _)
\* how many candidates pass while wheel j stands still
Turns(ws, j) == IF j >= Len(ws) THEN 1 ELSE Len(ws[j + 1]) * Turns(ws, j + 1)

\* C9: the candidates are the cartesian product of the match sets, one string
\* for every choice of one string per set, the last set varying fastest.
C9_CombineIsOdometerProduct ==
    pc = "done" =>
        /\ Len(matches) = Turns(sets, 0)
        /\ \A k \in 1..Len(matches) :
              matches[k] =
                join([j \in 1..Len(sets) |->
                        sets[j][(((k - 1) \div Turns(sets, j)) % Len(sets[j])) + 1]])

\* [ab][cd]: 'ac', 'ad', 'bc', 'bd'
C9_Witness ==
    /\ pc = "done"
    /\ sets = << << <<97>>, <<98>> >>, << <<99>>, <<100>> >> >>
    /\ matches = << <<97, 99>>, <<97, 100>>, <<98, 99>>, <<98, 100>> >>

\* C10: for a Repeat node with low <= min(high, bound), the strings generate
\* yields are the k-fold concatenations of the child's strings for k between
\* low and min(high, bound), no more and no fewer.
C10_RepeatIsBoundedRepetition ==
    (pc = "done" /\ IsRepeat(pattern)
        /\ pattern[1].a <= Min(pattern[1].b, max_repeat)) =>
        Elems(out) = Textbook(Elems(ChildMatches), pattern[1].a,
                              Min(pattern[1].b, max_repeat))

\* a{0,5} with max_repeat 3: '', 'a', 'aa', 'aaa'
C10_Witness ==
    /\ pc = "done"
    /\ pattern = <<MAX_REPEAT(0, 5, <<LITERAL(97)>>)>>
    /\ max_repeat = 3
    /\ out = << EMPTY, <<97>>, <<97, 97>>, <<97, 97, 97>> >>

====
